---------------------------- MODULE Spec2Model ----------------------------
(***************************************************************************)
(* CpWER (src/pyannote/metrics/meeteval_cpwer.py): the per-sample          *)
(* component extraction (compute_components), the ratio with its           *)
(* zero-length policy (compute_metric) and the accumulation protocol of    *)
(* __call__.                                                               *)
(*                                                                         *)
(* Python values are modelled as records [t, v]: a str is                  *)
(* [t |-> "str", v |-> <<characters>>], a list or tuple is                 *)
(* [t |-> "list", v |-> <<values>>], any other object is [t |-> "obj"].    *)
(* Component counts are the integers meeteval returns (kept exactly by     *)
(* the float additions of the code); a metric value is the exact rational  *)
(* [num, den] in lowest terms that the float division rounds.              *)
(***************************************************************************)
EXTENDS Integers, Sequences, FiniteSets, TLC

\* ------------------------------------------------------------------ bounds

\* successful calls folded in before the model stops accepting more
MaxResults == 2
\* largest component value handed directly to compute_metric
MaxComp == 2
\* workers of the lock-serialised deployment
NWorkers == 2

\* ------------------------------------------------------------ Python values

PyStr(s) == [t |-> "str", v |-> s]
PyList(xs) == [t |-> "list", v |-> xs]
PyObj == [t |-> "obj", v |-> <<>>]

None == "None"

\* ---------------------------------------------------------- text utilities

RECURSIVE SumSeq(_)
SumSeq(s) == IF s = <<>> THEN 0 ELSE Head(s) + SumSeq(Tail(s))

Max(a, b) == IF a >= b THEN a ELSE b

\* str.startswith
startswith(s, prefix) ==
    /\ Len(prefix) <= Len(s)
    /\ \A i \in 1..Len(prefix) : s[i] = prefix[i]

\* str.split(): the maximal runs of non-blank characters
RECURSIVE SplitAcc(_, _, _)
SplitAcc(text, cur, acc) ==
    IF text = <<>>
    THEN IF cur = <<>> THEN acc ELSE Append(acc, cur)
    ELSE IF Head(text) = " "
         THEN SplitAcc(Tail(text), <<>>, IF cur = <<>> THEN acc ELSE Append(acc, cur))
         ELSE SplitAcc(Tail(text), Append(cur, Head(text)), acc)

split(text) == SplitAcc(text, <<>>, <<>>)

RECURSIVE join(_)
join(words) ==
    IF words = <<>> THEN <<>>
    ELSE IF Len(words) = 1 THEN Head(words)
    ELSE Head(words) \o <<" ">> \o join(Tail(words))

\* str.strip(): leading and trailing blanks removed
RECURSIVE lstrip(_)
lstrip(text) ==
    IF text # <<>> /\ Head(text) = " " THEN lstrip(Tail(text)) ELSE text

RECURSIVE rstrip(_)
rstrip(text) ==
    IF text # <<>> /\ text[Len(text)] = " "
    THEN rstrip(SubSeq(text, 1, Len(text) - 1))
    ELSE text

strip(text) == rstrip(lstrip(text))

lower(c) == IF c = "X" THEN "x" ELSE IF c = "Y" THEN "y" ELSE c

\* whisper's EnglishTextNormalizer on the alphabet of the model: lower-cases
\* and collapses runs of blanks, dropping leading and trailing ones.
normalizer(text) == join(split([i \in 1..Len(text) |-> lower(text[i])]))


\* ------------------------------------------- the alignment collaborator

\* Word-level edit distance of one reference stream against one hypothesis
\* stream, split into substitutions, deletions and insertions.
ErrCount(e) == e.substitutions + e.deletions + e.insertions

MinErr(a, b) == IF ErrCount(a) <= ErrCount(b) THEN a ELSE b

RECURSIVE Lev(_, _)
Lev(r, h) ==
    IF r = <<>> THEN [substitutions |-> 0, deletions |-> 0, insertions |-> Len(h)]
    ELSE IF h = <<>> THEN [substitutions |-> 0, deletions |-> Len(r), insertions |-> 0]
    ELSE LET d == Lev(Tail(r), Tail(h))
             x == Lev(Tail(r), h)
             y == Lev(r, Tail(h))
             diag == [d EXCEPT !.substitutions =
                          @ + (IF Head(r) = Head(h) THEN 0 ELSE 1)]
             del == [x EXCEPT !.deletions = @ + 1]
             ins == [y EXCEPT !.insertions = @ + 1]
         IN  MinErr(diag, MinErr(del, ins))

Assignments(n) ==
    {p \in [1..n -> 1..n] : \A i, j \in 1..n : i # j => p[i] # p[j]}

\* meeteval's cp_word_error_rate on two lists of texts: the streams of the
\* shorter list are padded with empty ones, the hypothesis streams are
\* assigned to the reference streams by the permutation with the fewest
\* errors, and the counts are summed over the streams.
cp_word_error_rate(reference, hypothesis) ==
    LET n == Max(Len(reference), Len(hypothesis))
        R == [i \in 1..n |-> IF i <= Len(reference) THEN split(reference[i]) ELSE <<>>]
        H == [i \in 1..n |-> IF i <= Len(hypothesis) THEN split(hypothesis[i]) ELSE <<>>]
        errs(p) == [i \in 1..n |-> Lev(R[i], H[p[i]])]
        total(p) == SumSeq([i \in 1..n |-> ErrCount(errs(p)[i])])
        best == CHOOSE p \in Assignments(n) :
                    \A q \in Assignments(n) : total(p) <= total(q)
        e == errs(best)
    IN  [length |-> SumSeq([i \in 1..n |-> Len(R[i])]),
         substitutions |-> SumSeq([i \in 1..n |-> e[i].substitutions]),
         deletions |-> SumSeq([i \in 1..n |-> e[i].deletions]),
         insertions |-> SumSeq([i \in 1..n |-> e[i].insertions])]

\* ------------------------------------------------- the reference directory

\* The files of reference_dir as os.listdir returns them: name, whether the
\* bytes decode as utf-8, and the decoded text.
ReferenceDir ==
    << [name |-> <<"a", "1">>, utf8 |-> TRUE,  text |-> <<"x", " ", "Y">>],
       [name |-> <<"a", "b">>, utf8 |-> TRUE,  text |-> <<"y">>],
       [name |-> <<"e">>,      utf8 |-> TRUE,  text |-> <<" ">>],
       [name |-> <<"u">>,      utf8 |-> FALSE, text |-> <<>>] >>

\* The identifiers a reference annotation may carry; <<"c">> names no file.
Uris == {<<"a">>, <<"a", "b">>, <<"e">>, <<"u">>, <<"c">>}

Annotation(u) == [uri |-> u]

\* The hypotheses callers pass: bare strings, lists of strings, and the
\* (diarization, asr_hypothesis, sources) tuples of the comment at line 70.
Hypotheses ==
    << PyStr(<<"x", "Y">>),
       PyList(<<PyStr(<<"x", "Y">>)>>),
       PyList(<<PyObj, PyList(<<PyStr(<<"x", " ", "Y">>), PyStr(<<"y">>)>>), PyObj>>),
       PyList(<<PyObj, PyList(<<>>), PyObj>>),
       PyList(<<PyObj, PyObj, PyObj>>) >>

\* --------------------------------------------------------------- the metric

metric_name == "CpWER"

metric_components == <<"length", "substitutions", "deletions", "insertions">>

\* BaseMetric's components_: the declared component names
components_ == {metric_components[i] : i \in 1..Len(metric_components)}

NoComponents ==
    [length |-> 0, substitutions |-> 0, deletions |-> 0, insertions |-> 0]

\* x[1] of Python: the second item of a str, list or tuple
Subscript1(x) ==
    IF x.t = "obj" THEN [raised |-> "TypeError", value |-> PyObj]
    ELSE IF Len(x.v) < 2 THEN [raised |-> "IndexError", value |-> PyObj]
    ELSE IF x.t = "str" THEN [raised |-> "none", value |-> PyStr(<<x.v[2]>>)]
    ELSE [raised |-> "none", value |-> x.v[2]]

\* Lines 74-80: the files whose name starts with uri, read, stripped and
\* normalized in listing order; the first file that does not decode raises.
ReferencePaths(uri) ==
    SelectSeq(ReferenceDir, LAMBDA f : startswith(f.name, uri))

ReadReferences(uri) ==
    LET paths == ReferencePaths(uri)
    IN  IF \E i \in 1..Len(paths) : ~paths[i].utf8
        THEN [raised |-> "UnicodeDecodeError", value |-> <<>>]
        ELSE [raised |-> "none",
              value |-> [i \in 1..Len(paths) |-> normalizer(strip(paths[i].text))]]

\* Lines 88-93: a str is wrapped into a one-element list, then every element
\* is normalized; the normalizer calls .lower() on its argument.
NormalizeHypothesis(asr_hypothesis) ==
    IF asr_hypothesis.t = "obj"
    THEN [raised |-> "TypeError", value |-> <<>>]
    ELSE LET items == IF asr_hypothesis.t = "str"
                      THEN <<asr_hypothesis>>
                      ELSE asr_hypothesis.v
         IN  IF \E i \in 1..Len(items) : items[i].t # "str"
             THEN [raised |-> "AttributeError", value |-> <<>>]
             ELSE [raised |-> "none",
                   value |-> [i \in 1..Len(items) |-> normalizer(items[i].v)]]

compute_components(reference, hypothesis) ==
    LET asr_hypothesis == Subscript1(hypothesis)
        uri == reference.uri
        reference_text == ReadReferences(uri)
        hyps == NormalizeHypothesis(asr_hypothesis.value)
    IN  IF asr_hypothesis.raised # "none"
        THEN [raised |-> asr_hypothesis.raised, components |-> NoComponents]
        ELSE IF reference_text.raised # "none"
        THEN [raised |-> reference_text.raised, components |-> NoComponents]
        ELSE IF hyps.raised # "none"
        THEN [raised |-> hyps.raised, components |-> NoComponents]
        ELSE [raised |-> "none",
              components |-> cp_word_error_rate(reference_text.value, hyps.value)]

\* compute_components over the inputs of the model, evaluated once
Extracted ==
    [reference \in {Annotation(u) : u \in Uris}, h \in 1..Len(Hypotheses) |->
        compute_components(reference, Hypotheses[h])]

\* ------------------------------------------------------------ metric values

RECURSIVE GCD(_, _)
GCD(a, b) == IF b = 0 THEN a ELSE GCD(b, a % b)

\* The quotient n / d (d > 0) of two counts, in lowest terms
Quotient(n, d) == [num |-> n \div GCD(n, d), den |-> d \div GCD(n, d)]

Zero == [num |-> 0, den |-> 1]
One == [num |-> 1, den |-> 1]

\* The ratio with the deletions left out of the numerator
compute_metric_no_deletions(components) ==
    LET numerator == components["substitutions"] + components["insertions"]
        denominator == components["length"]
    IN  IF denominator = 0
        THEN IF numerator = 0
             THEN [value |-> Zero, warned |-> FALSE]
             ELSE [value |-> One, warned |-> TRUE]
        ELSE [value |-> Quotient(numerator, denominator), warned |-> FALSE]

\* The ratio with every empty reference scored 0.0, silently
compute_metric_zero_on_empty(components) ==
    LET numerator == components["substitutions"] + components["deletions"]
                       + components["insertions"]
        denominator == components["length"]
    IN  IF denominator = 0
        THEN [value |-> Zero, warned |-> FALSE]
        ELSE [value |-> Quotient(numerator, denominator), warned |-> FALSE]

\* Lines 126-136. warned: whether warnings.warn was called (under Python's
\* default filters a warning is reported and execution continues).
compute_metric(components) ==
    LET numerator == components["substitutions"] + components["deletions"]
                       + components["insertions"]
        denominator == components["length"]
    IN  IF denominator = 0
        THEN IF numerator = 0
             THEN [value |-> Zero, warned |-> FALSE]
             ELSE [value |-> One, warned |-> TRUE]
        ELSE [value |-> Quotient(numerator, denominator), warned |-> FALSE]

\* total = value in place of total += value
iadd_assign(total, value) == value

\* Line 175: total += value
iadd(total, value) == total + value

\* The loop with the insertions left out
accumulate_without_insertions(accumulated, components) ==
    [name \in components_ |->
        IF name = "insertions" THEN accumulated[name]
        ELSE iadd(accumulated[name], components[name])]

\* The loop adding the stored rate of the sample into the length total
accumulate_with_metric(accumulated, components) ==
    [name \in components_ |->
        IF name = "length"
        THEN accumulated[name] + components[name] + components[metric_name].num
        ELSE iadd(accumulated[name], components[name])]

\* Lines 174-175: every declared component is added into its running total
accumulate(accumulated, components) ==
    [name \in components_ |-> iadd(accumulated[name], components[name])]

\* The entry put in front of the history
track_prepend(results, uri, components) == <<<<uri, components>>>> \o results

\* Line 171
track(results, uri, components) == Append(results, <<uri, components>>)

NoResult == NoComponents @@ (metric_name :> Zero)

\* The call with the history entry written before the components are computed
call_tracking_first(self, reference, h, detailed, uri) ==
    LET cc == Extracted[reference, h]
        m == compute_metric(cc.components)
        components == cc.components @@ (metric_name :> m.value)
        key == reference.uri
    IN  IF cc.raised # "none"
        THEN [self |-> [self EXCEPT !.results_ = track(@, key, NoResult)],
              raised |-> cc.raised, components |-> NoResult,
              warned |-> FALSE, returned |-> Zero]
        ELSE [self |-> [accumulated_ |-> accumulate(self.accumulated_, components),
                        results_ |-> track(self.results_, key, components)],
              raised |-> "none", components |-> components,
              warned |-> m.warned, returned |-> components[metric_name]]

\* Lines 163-180, on the metric object self = [accumulated_, results_] and
\* the hypothesis Hypotheses[h]: the object after the call, the exception
\* raised ("none": the call returned), the components record built, whether
\* a warning was emitted and the value returned without detailed.
call(self, reference, h, detailed, uri) ==
    LET cc == Extracted[reference, h]
        m == compute_metric(cc.components)
        components == cc.components @@ (metric_name :> m.value)
        key == reference.uri
    IN  IF cc.raised # "none"
        THEN [self |-> self, raised |-> cc.raised, components |-> NoResult,
              warned |-> FALSE, returned |-> Zero]
        ELSE [self |-> [accumulated_ |-> accumulate(self.accumulated_, components),
                        results_ |-> track(self.results_, key, components)],
              raised |-> "none", components |-> components,
              warned |-> m.warned, returned |-> components[metric_name]]

\* ------------------------------------------------------------------- state

VARIABLES
    accumulated_,   \* BaseMetric.accumulated_: component name -> running total
    results_,       \* BaseMetric.results_: the history of (uri, components)
    last,           \* the latest operation: its inputs and its outcome
    returned_,      \* what the successful calls since the last reset took and returned
    lock,           \* the worker holding the caller's lock, 0 when free
    pc,             \* each worker's position in __call__
    frame           \* each worker's locals in __call__

vars == <<accumulated_, results_, last, returned_, lock, pc, frame>>

Workers == 1..NWorkers

NoOp ==
    [op |-> "init", reference |-> <<>>, uri |-> None, hypothesis |-> 0,
     detailed |-> FALSE, raised |-> "none", components |-> NoResult,
     value |-> Zero, warned |-> FALSE, arg |-> NoComponents]

NoFrame ==
    [reference |-> Annotation(<<>>), hypothesis |-> 0, components |-> NoComponents,
     todo |-> {}, name |-> "", loaded |-> 0]

\* BaseMetric.__init__ / reset(): zero totals, empty history
Init ==
    /\ accumulated_ = [name \in components_ |-> 0]
    /\ results_ = <<>>
    /\ last = NoOp
    /\ returned_ = <<>>
    /\ lock = 0
    /\ pc = [w \in Workers |-> "idle"]
    /\ frame = [w \in Workers |-> NoFrame]

\* The uri arguments callers pass: none, or an identifier of their own
UriArgs == {None, <<"c">>}

\* The references callers evaluate
References == {Annotation(u) : u \in {<<"a">>, <<"e">>, <<"u">>, <<"c">>}}

\* metric(reference, hypothesis, detailed=..., uri=...)
Call(reference, h, detailed, uri) ==
    LET r == call([accumulated_ |-> accumulated_, results_ |-> results_],
                  reference, h, detailed, uri)
    IN  /\ r.raised # "none" \/ Len(results_) < MaxResults
        /\ accumulated_' = r.self.accumulated_
        /\ results_' = r.self.results_
        /\ last' = [NoOp EXCEPT !.op = "call", !.reference = reference.uri,
                                !.uri = uri, !.hypothesis = h,
                                !.detailed = detailed, !.raised = r.raised,
                                !.components = r.components,
                                !.value = r.returned, !.warned = r.warned]
        /\ returned_' = IF r.raised = "none"
                        THEN Append(returned_, <<reference.uri, r.components>>)
                        ELSE returned_
        /\ UNCHANGED <<lock, pc, frame>>

\* metric.compute_metric(components), called directly
ComputeMetric(components) ==
    LET m == compute_metric(components)
    IN  /\ last' = [NoOp EXCEPT !.op = "compute_metric", !.arg = components,
                                !.value = m.value, !.warned = m.warned]
        /\ UNCHANGED <<accumulated_, results_, returned_, lock, pc, frame>>

\* abs(metric): the metric of the running totals
corpusValue ==
    LET m == compute_metric(accumulated_)
    IN  /\ last' = [NoOp EXCEPT !.op = "abs", !.arg = accumulated_,
                                !.value = m.value, !.warned = m.warned]
        /\ UNCHANGED <<accumulated_, results_, returned_, lock, pc, frame>>

\* metric.reset()
reset ==
    /\ accumulated_' = [name \in components_ |-> 0]
    /\ results_' = <<>>
    /\ last' = [NoOp EXCEPT !.op = "reset"]
    /\ returned_' = <<>>
    /\ UNCHANGED <<lock, pc, frame>>

\* The component records handed directly to compute_metric
ComponentRecords ==
    [length : 0..MaxComp, substitutions : 0..MaxComp,
     deletions : 0..MaxComp, insertions : 0..MaxComp]

\* An evaluation pass: calls, corpus values and resets in any order
Next ==
    \/ \E reference \in References, h \in 1..Len(Hypotheses),
          detailed \in BOOLEAN, uri \in UriArgs :
           Call(reference, h, detailed, uri)
    \/ corpusValue
    \/ reset

Spec == Init /\ [][Next]_vars

\* compute_metric called directly on any record, between the calls of a pass
\* over two samples: one with an empty reference, one with a perfect match
MetricSamples == {<<Annotation(<<"e">>), 1>>, <<Annotation(<<"a">>), 3>>}

NextMetric ==
    \/ \E components \in ComponentRecords : ComputeMetric(components)
    \/ \E s \in MetricSamples, detailed \in BOOLEAN : Call(s[1], s[2], detailed, None)
    \/ reset

SpecMetric == Init /\ [][NextMetric]_vars

\* ------------------------------------------ calls serialised behind a lock

\* The samples the workers evaluate; the reference <<"u">> cannot be read
WorkerSamples ==
    {<<Annotation(<<"a">>), 1>>, <<Annotation(<<"a">>), 3>>,
     <<Annotation(<<"e">>), 1>>, <<Annotation(<<"u">>), 1>>}

\* The caller takes the lock, then enters __call__ with its sample
Acquire(w, reference, h) ==
    /\ pc[w] = "idle"
    /\ lock = 0
    /\ lock' = w
    /\ pc' = [pc EXCEPT ![w] = "compute_components"]
    /\ frame' = [frame EXCEPT ![w] = [NoFrame EXCEPT !.reference = reference,
                                                     !.hypothesis = h]]
    /\ UNCHANGED <<accumulated_, results_, last, returned_>>

\* Line 164
StepComponents(w) ==
    LET cc == Extracted[frame[w].reference, frame[w].hypothesis]
    IN  /\ pc[w] = "compute_components"
        /\ lock = w
        /\ IF cc.raised # "none"
           THEN /\ pc' = [pc EXCEPT ![w] = "raised"]
                /\ frame' = frame
           ELSE /\ pc' = [pc EXCEPT ![w] = "compute_metric"]
                /\ frame' = [frame EXCEPT ![w].components = cc.components]
        /\ UNCHANGED <<accumulated_, results_, last, returned_, lock>>

\* Line 167
StepMetric(w) ==
    /\ pc[w] = "compute_metric"
    /\ lock = w
    /\ frame' = [frame EXCEPT ![w].components =
                     @ @@ (metric_name :> compute_metric(@).value)]
    /\ pc' = [pc EXCEPT ![w] = "append"]
    /\ UNCHANGED <<accumulated_, results_, last, returned_, lock>>

\* Lines 170-171
StepTrack(w) ==
    /\ pc[w] = "append"
    /\ lock = w
    /\ results_' = track(results_, frame[w].reference.uri, frame[w].components)
    /\ frame' = [frame EXCEPT ![w].todo = components_]
    /\ pc' = [pc EXCEPT ![w] = "accumulate"]
    /\ UNCHANGED <<accumulated_, last, returned_, lock>>

\* Lines 174-175, the read of one += : the loop takes the names of the set
\* components_ in no particular order
StepLoad(w) ==
    /\ pc[w] = "accumulate"
    /\ lock = w
    /\ \E name \in frame[w].todo :
           frame' = [frame EXCEPT ![w].name = name,
                                  ![w].loaded = accumulated_[name]]
    /\ pc' = [pc EXCEPT ![w] = "store"]
    /\ UNCHANGED <<accumulated_, results_, last, returned_, lock>>

\* Line 175, the write of one +=
StepStore(w) ==
    LET f == frame[w]
    IN  /\ pc[w] = "store"
        /\ lock = w
        /\ accumulated_' = [accumulated_ EXCEPT
                               ![f.name] = iadd(f.loaded, f.components[f.name])]
        /\ frame' = [frame EXCEPT ![w].todo = @ \ {f.name}]
        /\ pc' = [pc EXCEPT ![w] =
                     IF f.todo = {f.name} THEN "return" ELSE "accumulate"]
        /\ UNCHANGED <<results_, last, returned_, lock>>

\* The call returns or raises, and the caller gives the lock back
Release(w) ==
    /\ pc[w] \in {"return", "raised"}
    /\ lock = w
    /\ lock' = 0
    /\ pc' = [pc EXCEPT ![w] = IF pc[w] = "return" THEN "returned" ELSE "failed"]
    /\ UNCHANGED <<accumulated_, results_, last, returned_, frame>>

NextLocked ==
    \E w \in Workers :
        \/ \E s \in WorkerSamples : Acquire(w, s[1], s[2])
        \/ StepComponents(w)
        \/ StepMetric(w)
        \/ StepTrack(w)
        \/ StepLoad(w)
        \/ StepStore(w)
        \/ Release(w)

SpecLocked == Init /\ [][NextLocked]_vars

\* ------------------------------------------------------------------ claims

\* The componentwise sum of the entries of a history, taken in the order p
HistoryTotalsIn(results, p) ==
    [name \in components_ |->
        SumSeq([i \in 1..Len(results) |-> results[p[i]][2][name]])]

HistoryTotals(results) ==
    HistoryTotalsIn(results, [i \in 1..Len(results) |-> i])

\* C1: in every state reached by calls that return, calls that raise and
\* resets, each running total is the sum of that component over the entries
\* of the history, in whatever order the entries are summed; the totals are
\* zero and the history empty at construction and right after reset(); the
\* rate stored in an entry has no total of its own and enters none.
TotalsAreHistorySums ==
    /\ DOMAIN accumulated_ = components_
    /\ metric_name \notin DOMAIN accumulated_
    /\ \A i \in 1..Len(results_) : metric_name \in DOMAIN results_[i][2]
    /\ \A p \in Assignments(Len(results_)) :
           accumulated_ = HistoryTotalsIn(results_, p)
    /\ last.op \in {"init", "reset"} =>
           /\ results_ = <<>>
           /\ \A name \in components_ : accumulated_[name] = 0

\* Two different samples folded in, one of them with a rate that is not
\* zero, then a call that raised
TotalsWitness ==
    /\ Len(results_) = 2
    /\ results_[1][2] # results_[2][2]
    /\ results_[1][2][metric_name] = One
    /\ accumulated_["length"] > 0
    /\ accumulated_["insertions"] > 0
    /\ last.op = "call"
    /\ last.raised # "none"

Errors(components) ==
    components["substitutions"] + components["deletions"] + components["insertions"]

\* value = n / d, for d > 0
IsRatio(value, n, d) == value.den > 0 /\ value.num * d = n * value.den

\* The zero-length policy: 0.0 in silence for no errors, 1.0 with a warning
\* for some
ZeroLengthPolicy(value, warned, components) ==
    IF Errors(components) = 0
    THEN value = Zero /\ ~warned
    ELSE value = One /\ warned

\* C2: a direct compute_metric on a record with length > 0 yields the one
\* value v with v * length = substitutions + deletions + insertions (so the
\* same record always yields the same value), emits no warning, and leaves
\* the running totals and the history as they were.
MetricIsRatio ==
    [][(last'.op = "compute_metric" /\ last'.arg["length"] > 0) =>
           /\ IsRatio(last'.value, Errors(last'.arg), last'.arg["length"])
           /\ ~last'.warned
           /\ accumulated_' = accumulated_
           /\ results_' = results_]_vars

\* A rate above 1 (3 errors over 2 words) computed while a sample is held
MetricWitness ==
    /\ last.op = "compute_metric"
    /\ last.arg["length"] = 2
    /\ last.arg["deletions"] = 2
    /\ Errors(last.arg) = 3
    /\ last.value = [num |-> 3, den |-> 2]
    /\ results_ # <<>>
    /\ accumulated_["length"] > 0

\* C3: on a record with length = 0 compute_metric yields 0.0 when there are
\* no errors and 1.0 with a warning when there are some; a call whose
\* components come out with length = 0 does not raise, stores that value,
\* appends its entry to the history and adds its components to the totals.
ZeroLengthIsScored ==
    [][/\ (last'.op = "compute_metric" /\ last'.arg["length"] = 0) =>
              /\ last'.raised = "none"
              /\ ZeroLengthPolicy(last'.value, last'.warned, last'.arg)
       /\ (/\ last'.op = "call"
           /\ Extracted[Annotation(last'.reference), last'.hypothesis].raised = "none"
           /\ Extracted[Annotation(last'.reference), last'.hypothesis]
                  .components["length"] = 0) =>
              /\ last'.raised = "none"
              /\ last'.components["length"] = 0
              /\ ZeroLengthPolicy(last'.components[metric_name], last'.warned,
                                  last'.components)
              /\ last'.value = last'.components[metric_name]
              /\ results_' = Append(results_, <<last'.reference, last'.components>>)
              /\ \A name \in components_ :
                     accumulated_'[name] = accumulated_[name] + last'.components[name]
      ]_vars

\* A second sample with an empty reference and one inserted word: scored 1.0
\* with a warning, and folded in
ZeroLengthWitness ==
    /\ last.op = "call"
    /\ last.raised = "none"
    /\ last.components["length"] = 0
    /\ last.components["insertions"] = 1
    /\ last.value = One
    /\ last.warned
    /\ Len(results_) = 2
    /\ results_[2] = <<last.reference, last.components>>
    /\ accumulated_["insertions"] >= 1

\* C4: the corpus value is compute_metric of the componentwise sums of the
\* samples folded in (errors summed over summed lengths), and taking it
\* leaves the totals and the history as they were.
CorpusValueIsPooled ==
    [][last'.op = "abs" =>
           /\ last'.arg = HistoryTotals(results_)
           /\ last'.value = compute_metric(HistoryTotals(results_)).value
           /\ HistoryTotals(results_)["length"] > 0 =>
                  IsRatio(last'.value, Errors(HistoryTotals(results_)),
                          HistoryTotals(results_)["length"])
           /\ accumulated_' = accumulated_
           /\ results_' = results_]_vars

\* The corpus value of two samples whose rates are a / b and c / d is not
\* their mean (a d + c b) / (2 b d)
PooledWitness ==
    /\ last.op = "abs"
    /\ Len(results_) = 2
    /\ accumulated_["length"] > 0
    /\ LET v1 == results_[1][2][metric_name]
           v2 == results_[2][2][metric_name]
       IN  /\ v1 # v2
           /\ ~IsRatio(last.value, v1.num * v2.den + v2.num * v1.den,
                       2 * v1.den * v2.den)
    /\ last.value = [num |-> 1, den |-> 3]

\* C5: a call that raises leaves every running total and the history exactly
\* as they were before it.
FailedCallChangesNothing ==
    [][(last'.op = "call" /\ last'.raised # "none") =>
           /\ accumulated_' = accumulated_
           /\ results_' = results_]_vars

\* A reference that cannot be read, after a sample was folded in
FailedCallWitness ==
    /\ last.op = "call"
    /\ last.raised = "UnicodeDecodeError"
    /\ Len(results_) = 1
    /\ accumulated_["length"] > 0

IsPrefix(s, t) == Len(s) <= Len(t) /\ SubSeq(t, 1, Len(s)) = s

\* C6: the history holds, in call order, exactly the (reference identifier,
\* components) of the calls that returned since construction or the last
\* reset, and a call never changes or removes an entry already there.
HistoryIsAppendOnly ==
    [][/\ results_' = returned_'
       /\ last'.op # "reset" => IsPrefix(results_, results_')
       /\ (last'.op = "call" /\ last'.raised = "none") =>
              Len(results_') = Len(results_) + 1
       /\ (last'.op = "call" /\ last'.raised # "none") =>
              Len(results_') = Len(results_)]_vars

\* Two different samples in the history in the order they were folded in,
\* then a call that raised
HistoryWitness ==
    /\ Len(results_) = 2
    /\ results_[1][1] = <<"e">>
    /\ results_[2][1] = <<"a">>
    /\ results_[1][2] # results_[2][2]
    /\ last.op = "call"
    /\ last.raised = "TypeError"

\* C7: a call whose reference identifier starts the name of no file of the
\* reference directory raises, and so returns no components.
NoReferenceRaises ==
    (last.op = "call" /\ ReferencePaths(last.reference) = <<>>) =>
        last.raised # "none"

\* C8: when the call returns and a uri was passed, the entry appended to the
\* history is keyed by that uri and the components are those of the
\* references of that uri.
UriOverrides ==
    (last.op = "call" /\ last.raised = "none" /\ last.uri # None) =>
        /\ results_[Len(results_)][1] = last.uri
        /\ \A name \in components_ :
               last.components[name] =
                   Extracted[Annotation(last.uri), last.hypothesis].components[name]

\* C9: a call on a hypothesis given as a bare string s has the outcome of
\* the extractor on the one-element list [s].
WrappingIsIdempotent ==
    (last.op = "call" /\ Hypotheses[last.hypothesis].t = "str") =>
        LET wrapped == compute_components(Annotation(last.reference),
                                          PyList(<<Hypotheses[last.hypothesis]>>))
        IN  /\ last.raised = wrapped.raised
            /\ \A name \in components_ :
                   last.components[name] = wrapped.components[name]

Returned == {w \in Workers : pc[w] = "returned"}

\* C10: once every worker's call, made with the lock held from before its
\* first step until after its last, has returned or raised, the totals are
\* the componentwise sums over the calls that returned and the history holds
\* the entry of each such call exactly once.
LockedTotalsAreSums ==
    (\A w \in Workers : pc[w] \in {"returned", "failed"}) =>
        /\ \A name \in components_ :
               accumulated_[name] =
                   SumSeq([w \in Workers |->
                              IF pc[w] = "returned"
                              THEN frame[w].components[name] ELSE 0])
        /\ Len(results_) = Cardinality(Returned)
        /\ \E f \in [Returned -> 1..Len(results_)] :
               /\ \A v, w \in Returned : v # w => f[v] # f[w]
               /\ \A w \in Returned :
                      results_[f[w]] = <<frame[w].reference.uri, frame[w].components>>

\* Every worker is done, two of them returned, with errors to add
LockedWitness ==
    /\ \A w \in Workers : pc[w] \in {"returned", "failed"}
    /\ Cardinality(Returned) >= 2
    /\ \E v, w \in Returned :
           /\ v # w
           /\ frame[v].components["deletions"] > 0
           /\ frame[w].components["insertions"] > 0
    /\ accumulated_["length"] > 0
=============================================================================
